---- MODULE Spec2Model ----
(***************************************************************************)
(* Visitor List Cleaner (src/app.py): the clearance-date estimator, the    *)
(* field normalizers, clean_data and generate_visitor_only.                *)
(*                                                                         *)
(* A Python str is a sequence of one-character strings; an empty           *)
(* spreadsheet cell (pandas NaN) is the value NaN.                         *)
(***************************************************************************)
EXTENDS Integers, Sequences, FiniteSets, TLC

VARIABLES
    mobIn, mobOut, mobPc,                     \* fix_mobile: argument, result, position
    grpNat, grpPr, grpOut, grpPc,             \* nationality_group: row cells, result, position
    nowDay, nowMinute, esd, dt, working_days, \* clearance-date handler locals
    clearance_date, pushes, datePc,
    raw, cleaned, recleaned,                  \* uploaded sheet, clean_data(raw), clean_data(cleaned)
    r, errors, seen, fills, vehicles, total,  \* generate_visitor_only locals and what it writes
    pc

mobVars  == <<mobIn, mobOut, mobPc>>
grpVars  == <<grpNat, grpPr, grpOut, grpPc>>
dateVars == <<nowDay, nowMinute, esd, dt, working_days, clearance_date, pushes, datePc>>
pipeVars == <<raw, cleaned, recleaned, r, errors, seen, fills, vehicles, total, pc>>
vars     == <<mobVars, grpVars, dateVars, pipeVars>>

(***************************************************************************)
(* Characters and the Python string methods the program uses.              *)
(***************************************************************************)
\* The characters of the model in code-point order (ASCII).
Alphabet ==
    <<" ", ",", "-", ".", "/",
      "0", "1", "2", "3", "4", "5", "6", "7", "8", "9", ";",
      "A", "B", "C", "D", "E", "F", "G", "H", "I", "J", "K", "L", "M",
      "N", "O", "P", "Q", "R", "S", "T", "U", "V", "W", "X", "Y", "Z",
      "a", "b", "c", "d", "e", "f", "g", "h", "i", "j", "k", "l", "m",
      "n", "o", "p", "q", "r", "s", "t", "u", "v", "w", "x", "y", "z">>

Ord(c) == CHOOSE i \in 1..Len(Alphabet) : Alphabet[i] = c

IsDigit(c) == Ord(c) \in Ord("0")..Ord("9")
IsUpper(c) == Ord(c) \in Ord("A")..Ord("Z")
IsLower(c) == Ord(c) \in Ord("a")..Ord("z")
IsCased(c) == IsUpper(c) \/ IsLower(c)
IsSpace(c) == c = " "
IsWordChar(c) == IsCased(c) \/ IsDigit(c)

ToLower(c) == IF IsUpper(c) THEN Alphabet[Ord(c) + (Ord("a") - Ord("A"))] ELSE c
ToUpper(c) == IF IsLower(c) THEN Alphabet[Ord(c) - (Ord("a") - Ord("A"))] ELSE c

\* An empty cell as pandas reads it.
NaN == <<"NaN">>

\* str(x) / .astype(str): NaN prints as "nan".
Str(x) == IF x = NaN THEN <<"n", "a", "n">> ELSE x

Lower(s) == [i \in 1..Len(s) |-> ToLower(s[i])]
Upper(s) == [i \in 1..Len(s) |-> ToUpper(s[i])]

\* str.title(): a cased character is upper-cased when the character before it
\* is not cased and lower-cased when it is.
Title(s) ==
    [i \in 1..Len(s) |->
        IF IsCased(s[i])
        THEN IF i > 1 /\ IsCased(s[i-1]) THEN ToLower(s[i]) ELSE ToUpper(s[i])
        ELSE s[i]]

\* str.strip()
Strip(s) ==
    LET keep == {i \in 1..Len(s) : ~IsSpace(s[i])}
    IN  IF keep = {} THEN <<>>
        ELSE LET lo == CHOOSE i \in keep : \A j \in keep : i <= j
                 hi == CHOOSE i \in keep : \A j \in keep : j <= i
             IN  SubSeq(s, lo, hi)

\* s[-n:]
Last(s, n) == IF Len(s) <= n THEN s ELSE SubSeq(s, Len(s) - n + 1, Len(s))

\* s.endswith(t)
EndsWith(s, t) == Len(t) <= Len(s) /\ SubSeq(s, Len(s) - Len(t) + 1, Len(s)) = t

\* c * n
Repeat(c, n) == [i \in 1..n |-> c]

\* s.zfill(n) of a string with no sign
Zfill(s, n) == IF Len(s) >= n THEN s ELSE Repeat("0", n - Len(s)) \o s

\* s < t in Python's ordering of str (code points, a proper prefix first)
RECURSIVE StrLess(_, _)
StrLess(s, t) ==
    IF t = <<>> THEN FALSE
    ELSE IF s = <<>> THEN TRUE
    ELSE IF s[1] = t[1] THEN StrLess(Tail(s), Tail(t))
    ELSE Ord(s[1]) < Ord(t[1])

(***************************************************************************)
(* fix_mobile                                                              *)
(***************************************************************************)
\* re.sub(r"\D", "", s)
DigitsOf(s) == SelectSeq(s, IsDigit)

fix_mobile_keep_last(x) ==
    LET d0 == DigitsOf(Str(x))
        d1 == IF Len(d0) > 8 THEN Last(d0, 8) ELSE d0
    IN  IF Len(d1) < 8 THEN Zfill(d1, 8) ELSE d1

fix_mobile(x) ==
    LET d0    == DigitsOf(Str(x))
        extra == Len(d0) - 8
        d1    == IF Len(d0) > 8
                 THEN IF EndsWith(d0, Repeat("0", extra))
                      THEN SubSeq(d0, 1, Len(d0) - extra)
                      ELSE Last(d0, 8)
                 ELSE d0
    IN  IF Len(d1) < 8 THEN Zfill(d1, 8) ELSE d1

(***************************************************************************)
(* The row helpers: nationality_group, split_name, clean_gender,           *)
(* normalize_pr.                                                           *)
(***************************************************************************)
\* The string literals of the program.
S_singapore == <<"s", "i", "n", "g", "a", "p", "o", "r", "e">>
S_malaysia  == <<"m", "a", "l", "a", "y", "s", "i", "a">>
S_india     == <<"i", "n", "d", "i", "a">>
S_chinese   == <<"c", "h", "i", "n", "e", "s", "e">>
S_yes       == <<"y", "e", "s">>
S_y         == <<"y">>
S_pr        == <<"p", "r">>
S_n         == <<"n">>
S_no        == <<"n", "o">>
S_na        == <<"n", "a">>
S_nan       == <<"n", "a", "n">>
S_fin       == <<"f", "i", "n">>
S_FIN       == <<"F", "I", "N">>
S_NRIC      == <<"N", "R", "I", "C">>
S_WP        == <<"W", "P">>
S_PR        == <<"P", "R">>
S_N         == <<"N">>
S_M         == <<"M">>
S_F         == <<"F">>
S_MALE      == <<"M", "A", "L", "E">>
S_FEMALE    == <<"F", "E", "M", "A", "L", "E">>
S_Male      == <<"M", "a", "l", "e">>
S_Female    == <<"F", "e", "m", "a", "l", "e">>
S_Singapore == <<"S", "i", "n", "g", "a", "p", "o", "r", "e">>
S_PteLtd    == <<"P", "t", "e", " ", "L", "t", "d">>

nationality_group_pr_first(natCell, prCell) ==
    LET nat == Lower(Strip(Str(natCell)))
        prv == Lower(Strip(Str(prCell)))
    IN  IF prv \in {S_yes, S_y, S_pr} THEN 2
        ELSE IF nat = S_singapore THEN 1
        ELSE IF nat = S_malaysia THEN 3
        ELSE IF nat = S_india THEN 4
        ELSE 5

nationality_group(natCell, prCell) ==
    LET nat == Lower(Strip(Str(natCell)))
        prv == Lower(Strip(Str(prCell)))
    IN  IF nat = S_singapore THEN 1
        ELSE IF prv \in {S_yes, S_y, S_pr} THEN 2
        ELSE IF nat = S_malaysia THEN 3
        ELSE IF nat = S_india THEN 4
        ELSE 5

\* split_name: <<first, rest>> around the first space of the stripped name
split_name(full_name) ==
    LET s == Strip(Str(full_name))
        sp == {i \in 1..Len(s) : s[i] = " "}
    IN  IF sp # {}
        THEN LET i == CHOOSE k \in sp : \A j \in sp : k <= j
             IN  <<SubSeq(s, 1, i - 1), SubSeq(s, i + 1, Len(s))>>
        ELSE <<s, <<>>>>

clean_gender(g) ==
    LET v == Upper(Strip(Str(g)))
    IN  IF v = S_M THEN S_Male
        ELSE IF v = S_F THEN S_Female
        ELSE IF v \in {S_MALE, S_FEMALE} THEN Title(v)
        ELSE v

normalize_pr(value) ==
    LET val == Lower(Strip(Str(value)))
    IN  IF val \in {S_pr, S_yes, S_y} THEN S_PR
        ELSE IF val \in {S_n, S_no, S_na} THEN S_N
        ELSE IF val \in {<<>>, S_nan} THEN <<>>
        ELSE Upper(val)

(***************************************************************************)
(* clean_data.  A DataFrame is a sequence of rows; a row is a record of    *)
(* the 13 columns.  The field idx is a history field, not a column: the    *)
(* position the row had in the frame handed to clean_data.                 *)
(***************************************************************************)
S_pte        == <<"p", "t", "e">>
S_ltd        == <<"l", "t", "d">>
S_singaporean == <<"s", "i", "n", "g", "a", "p", "o", "r", "e", "a", "n">>
S_malaysian  == <<"m", "a", "l", "a", "y", "s", "i", "a", "n">>
S_indian     == <<"i", "n", "d", "i", "a", "n">>
S_China      == <<"C", "h", "i", "n", "a">>
S_Malaysia   == <<"M", "a", "l", "a", "y", "s", "i", "a">>
S_India      == <<"I", "n", "d", "i", "a">>

\* df.columns[3:13]
DropnaSubset(row) ==
    <<row.fullName, row.firstName, row.lastName, row.idType, row.ic,
      row.wp, row.nat, row.pr, row.gender, row.mobile>>

KeptIfComplete(row) == \A k \in 1..Len(DropnaSubset(row)) : DropnaSubset(row)[k] # NaN

\* dropna(subset=..., how="all") keeps a row unless all of the subset is NaN
Kept(row) == \E k \in 1..Len(DropnaSubset(row)) : DropnaSubset(row)[k] # NaN

\* \b between s[i-1] and s[i]
WordBoundary(s, i) ==
    (i > 1 /\ IsWordChar(s[i-1])) # (i <= Len(s) /\ IsWordChar(s[i]))

\* the length of the run of whitespace that starts at s[i]
RECURSIVE SpaceRun(_, _)
SpaceRun(s, i) ==
    IF i <= Len(s) /\ IsSpace(s[i]) THEN 1 + SpaceRun(s, i + 1) ELSE 0

\* where a match of \bPTE\s+LTD\b (IGNORECASE) that starts at s[i] ends
\* (the index after it), 0 when there is none
MatchPteLtd(s, i) ==
    LET j == i + 3
        k == SpaceRun(s, j)
        e == j + k + 3
    IN  IF /\ i + 2 <= Len(s)
           /\ WordBoundary(s, i)
           /\ Lower(SubSeq(s, i, i + 2)) = S_pte
           /\ k >= 1
           /\ e - 1 <= Len(s)
           /\ Lower(SubSeq(s, j + k, e - 1)) = S_ltd
           /\ WordBoundary(s, e)
        THEN e ELSE 0

\* .str.replace(r"\bPTE\s+LTD\b", "Pte Ltd", flags=re.IGNORECASE, regex=True)
RECURSIVE ReplacePteLtd(_, _)
ReplacePteLtd(s, i) ==
    IF i > Len(s) THEN <<>>
    ELSE LET e == MatchPteLtd(s, i)
         IN  IF e > 0 THEN S_PteLtd \o ReplacePteLtd(s, e)
             ELSE <<s[i]>> \o ReplacePteLtd(s, i + 1)

NormalizeCompany(v) == ReplacePteLtd(Str(v), 1)

\* nat_map, applied to whole values
NatMap(v) ==
    IF v = S_chinese THEN S_China
    ELSE IF v = S_singaporean THEN S_Singapore
    ELSE IF v = S_malaysian THEN S_Malaysia
    ELSE IF v = S_indian THEN S_India
    ELSE v

NormalizeNationality(v) == Title(NatMap(Lower(Strip(Str(v)))))

\* the order of the values of a column in sort_values: str by code points, NaN last
ValueLess(a, b) ==
    IF a = NaN THEN FALSE
    ELSE IF b = NaN THEN TRUE
    ELSE StrLess(a, b)

\* the row's sort key: Company Full Name, SortGroup, Nationality, Full Name As Per NRIC
\* as these columns stand when sort_values runs
KeyLess(a, b) ==
    LET ga == nationality_group(a.nat, a.pr)
        gb == nationality_group(b.nat, b.pr)
    IN  IF a.company # b.company THEN ValueLess(a.company, b.company)
        ELSE IF ga # gb THEN ga < gb
        ELSE IF a.nat # b.nat THEN ValueLess(a.nat, b.nat)
        ELSE ValueLess(a.fullName, b.fullName)

\* x put into the sorted frame s behind every row that is not greater
RECURSIVE InsertSorted(_, _)
InsertSorted(x, s) ==
    IF s = <<>> THEN <<x>>
    ELSE IF KeyLess(x, s[1]) THEN <<x>> \o s
    ELSE <<s[1]>> \o InsertSorted(x, Tail(s))

\* df.sort_values([...]): a stable sort by the key
RECURSIVE sort_values(_)
sort_values(df) ==
    IF df = <<>> THEN <<>>
    ELSE InsertSorted(df[Len(df)], sort_values(SubSeq(df, 1, Len(df) - 1)))

NormalizeIdType(v) ==
    LET t == Strip(Str(v))
    IN  IF Lower(t) = S_fin THEN S_FIN ELSE Upper(t)

\* .str.replace(r"[\/,]", ";")
PlateSeparators(s) ==
    [i \in 1..Len(s) |-> IF s[i] \in {"/", ","} THEN ";" ELSE s[i]]

\* whether s[i] is whitespace that a match of \s*;\s* takes
BySemicolon(s, i) ==
    /\ IsSpace(s[i])
    /\ \/ \E j \in i+1..Len(s) : s[j] = ";" /\ \A k \in i..j-1 : IsSpace(s[k])
       \/ \E j \in 1..i-1 : s[j] = ";" /\ \A k \in j+1..i : IsSpace(s[k])

\* .str.replace(r"\s*;\s*", ";")
RECURSIVE TrimSemicolons(_, _)
TrimSemicolons(s, i) ==
    IF i > Len(s) THEN <<>>
    ELSE (IF BySemicolon(s, i) THEN <<>> ELSE <<s[i]>>) \o TrimSemicolons(s, i + 1)

\* .str.replace(r"\s+", "")
DropSpaces(s) == SelectSeq(s, LAMBDA c : ~IsSpace(c))

NormalizePlates(v) ==
    LET c == DropSpaces(TrimSemicolons(PlateSeparators(Str(v)), 1))
    IN  IF c = S_nan THEN <<>> ELSE c      \* .replace("nan", "")

\* the number a run of digits reads as
RECURSIVE DigitsValue(_)
DigitsValue(s) ==
    IF s = <<>> THEN 0
    ELSE 10 * DigitsValue(SubSeq(s, 1, Len(s) - 1)) + (Ord(s[Len(s)]) - Ord("0"))

DaysInMonth(y, m) ==
    IF m = 2 THEN (IF (y % 4 = 0 /\ y % 100 # 0) \/ y % 400 = 0 THEN 29 ELSE 28)
    ELSE IF m \in {4, 6, 9, 11} THEN 30 ELSE 31

\* whether s is YYYY-MM-DD and names a day of the calendar
IsIsoDate(s) ==
    /\ Len(s) = 10
    /\ s[5] = "-" /\ s[8] = "-"
    /\ \A i \in {1, 2, 3, 4, 6, 7, 9, 10} : IsDigit(s[i])
    /\ LET y == DigitsValue(SubSeq(s, 1, 4))
           m == DigitsValue(SubSeq(s, 6, 7))
           d == DigitsValue(SubSeq(s, 9, 10))
       IN  y >= 1 /\ m \in 1..12 /\ d \in 1..DaysInMonth(y, m)

\* pd.to_datetime(v, errors="coerce").dt.strftime("%Y-%m-%d"), on the cell values
\* of the model: an ISO date, NaN, or text that reads as no date
FormatWpDate(v) == IF v # NaN /\ IsIsoDate(v) THEN v ELSE NaN

\* df[iccol].astype(str).str.contains("-", na=False).any()
NeedsSwap(df) ==
    \E i \in 1..Len(df) : \E k \in 1..Len(Str(df[i].ic)) : Str(df[i].ic)[k] = "-"

\* lines 131-150: the row as sort_values sees it
BeforeSort(row) ==
    [row EXCEPT !.company = NormalizeCompany(row.company),
                !.nat = NormalizeNationality(row.nat)]

\* lines 158-206: the row at position i of the sorted frame, normalized
AfterSort(row, i, swap) ==
    LET name == Title(Str(row.fullName))
        icv  == IF swap THEN row.wp ELSE row.ic
        wpv  == IF swap THEN row.ic ELSE row.wp
    IN  [row EXCEPT !.sn = i,
                    !.pr = normalize_pr(row.pr),
                    !.idType = NormalizeIdType(row.idType),
                    !.plate = NormalizePlates(row.plate),
                    !.fullName = name,
                    !.firstName = split_name(name)[1],
                    !.lastName = split_name(name)[2],
                    !.ic = Last(Str(icv), 4),
                    !.mobile = fix_mobile(row.mobile),
                    !.gender = clean_gender(row.gender),
                    !.wp = FormatWpDate(wpv)]

clean_data(df) ==
    LET indexed == [i \in 1..Len(df) |-> [df[i] EXCEPT !.idx = i]]
        kept    == SelectSeq(indexed, Kept)
        normed  == [i \in 1..Len(kept) |-> BeforeSort(kept[i])]
        sorted  == sort_values(normed)
        swap    == NeedsSwap(sorted)
    IN  [i \in 1..Len(sorted) |-> AfterSort(sorted[i], i, swap)]

(***************************************************************************)
(* generate_visitor_only: the validation loop over the worksheet rows and  *)
(* the summary rows.  Worksheet row r holds frame row r - 1.               *)
(***************************************************************************)
\* df.to_excel: a NaN is written as an empty cell value (na_rep "")
ToExcel(v) == IF v = NaN THEN <<>> ELSE v

\* lines 249-251
BadRow(idt, nat, prv) ==
    \/ idt # S_NRIC /\ prv = S_pr
    \/ idt = S_FIN /\ (nat = S_Singapore \/ prv = S_pr)
    \/ idt = S_NRIC /\ ~(nat = S_Singapore \/ prv = S_pr)

\* line 256
MissingExpiry(idt, wpd) == idt = S_FIN /\ wpd = <<>>

DuplicateCellsLaterOnly(name, row, seenAt) ==
    IF name # <<>> /\ name \in DOMAIN seenAt THEN {<<"D", row>>} ELSE {}

\* lines 261-265: the cells filled by the duplicate check of worksheet row `row`
DuplicateCells(name, row, seenAt) ==
    IF name # <<>> /\ name \in DOMAIN seenAt
    THEN {<<"D", row>>, <<"D", seenAt[name]>>}
    ELSE {}

\* str.split(";")
RECURSIVE SplitSemicolon(_)
SplitSemicolon(s) ==
    LET at == {i \in 1..Len(s) : s[i] = ";"}
    IN  IF at = {} THEN <<s>>
        ELSE LET i == CHOOSE k \in at : \A j \in at : k <= j
             IN  <<SubSeq(s, 1, i - 1)>> \o SplitSemicolon(SubSeq(s, i + 1, Len(s)))

\* lines 282-284: set(plates)
PlateSet(df) ==
    {t \in UNION {{Strip(SplitSemicolon(Str(df[i].plate))[k]) :
                      k \in 1..Len(SplitSemicolon(Str(df[i].plate)))} :
                  i \in {j \in 1..Len(df) : df[j].plate # NaN}} : t # <<>>}

\* ";".join(sorted(S))
RECURSIVE JoinSorted(_)
JoinSorted(S) ==
    IF S = {} THEN <<>>
    ELSE LET m == CHOOSE x \in S : \A y \in S \ {x} : StrLess(x, y)
         IN  IF S = {m} THEN m ELSE m \o <<";">> \o JoinSorted(S \ {m})

\* df["Company Full Name"].notna().sum()
TotalVisitors(df) == Cardinality({i \in 1..Len(df) : df[i].company # NaN})

(***************************************************************************)
(* The upload pipeline (lines 313-323).                                    *)
(***************************************************************************)
NoFrame == <<>>
NoSeen  == [n \in {} |-> 0]

\* line 322
CleanData ==
    /\ pc = "uploaded"
    /\ cleaned' = clean_data(raw)
    /\ pc' = "cleaned"
    /\ UNCHANGED <<raw, recleaned, r, errors, seen, fills, vehicles, total>>
    /\ UNCHANGED <<mobVars, grpVars, dateVars>>

\* clean_data run on its own result
CleanAgain ==
    /\ pc = "cleaned"
    /\ recleaned' = clean_data(cleaned)
    /\ pc' = "recleaned"
    /\ UNCHANGED <<raw, cleaned, r, errors, seen, fills, vehicles, total>>
    /\ UNCHANGED <<mobVars, grpVars, dateVars>>

\* lines 211-239
StartGenerate ==
    /\ pc = "cleaned"
    /\ r' = 2
    /\ errors' = 0
    /\ seen' = NoSeen
    /\ fills' = {}
    /\ pc' = "scan"
    /\ UNCHANGED <<raw, cleaned, recleaned, vehicles, total>>
    /\ UNCHANGED <<mobVars, grpVars, dateVars>>

\* lines 240-267: one pass of the loop body
ScanRow ==
    /\ pc = "scan"
    /\ r <= Len(cleaned) + 1
    /\ LET row  == cleaned[r - 1]
           idt  == Upper(Strip(Str(ToExcel(row.idType))))
           nat  == Title(Strip(Str(ToExcel(row.nat))))
           prv  == Lower(Strip(Str(ToExcel(row.pr))))
           wpd  == Strip(Str(ToExcel(row.wp)))
           name == Strip(Str(ToExcel(row.fullName)))
           bad  == BadRow(idt, nat, prv)
           miss == MissingExpiry(idt, wpd)
       IN  /\ fills' = fills
                  \cup (IF bad THEN {<<"G", r>>, <<"J", r>>, <<"K", r>>} ELSE {})
                  \cup (IF miss THEN {<<"I", r>>} ELSE {})
                  \cup DuplicateCells(name, r, seen)
           /\ errors' = errors + (IF bad THEN 1 ELSE 0) + (IF miss THEN 1 ELSE 0)
           /\ seen' = IF name # <<>> /\ name \notin DOMAIN seen
                      THEN seen @@ (name :> r)
                      ELSE seen
    /\ r' = r + 1
    /\ UNCHANGED <<raw, cleaned, recleaned, vehicles, total, pc>>
    /\ UNCHANGED <<mobVars, grpVars, dateVars>>

\* lines 281-307: the summary rows
WriteSummary ==
    /\ pc = "scan"
    /\ r > Len(cleaned) + 1
    /\ vehicles' = JoinSorted(PlateSet(cleaned))
    /\ total' = TotalVisitors(cleaned)
    /\ pc' = "done"
    /\ UNCHANGED <<raw, cleaned, recleaned, r, errors, seen, fills>>
    /\ UNCHANGED <<mobVars, grpVars, dateVars>>

NextPipe == CleanData \/ CleanAgain \/ StartGenerate \/ ScanRow \/ WriteSummary

(***************************************************************************)
(* The clearance-date button handler (lines 55-77).  A date is its day     *)
(* number; day n falls on weekday n % 7, Monday being 0.                   *)
(***************************************************************************)
Weekday(d) == d % 7

\* datetime.strptime("15:00", "%H:%M").time(), in minutes after midnight
Cutoff == 15 * 60

\* lines 74-75: <<date, passes of the loop body>>
RECURSIVE PushOffWeekend(_, _)
PushOffWeekend(d, n) ==
    IF Weekday(d) >= 5 THEN PushOffWeekend(d + 1, n + 1) ELSE <<d, n>>

\* lines 57-60
Submit ==
    /\ datePc = "start"
    /\ esd' = IF nowMinute >= Cutoff THEN nowDay + 1 ELSE nowDay
    /\ datePc' = "skip"
    /\ UNCHANGED <<nowDay, nowMinute, dt, working_days, clearance_date, pushes>>
    /\ UNCHANGED <<mobVars, grpVars, pipeVars>>

\* lines 62-63: one pass of the loop
SkipWeekend ==
    /\ datePc = "skip"
    /\ Weekday(esd) >= 5
    /\ esd' = esd + 1
    /\ UNCHANGED <<nowDay, nowMinute, dt, working_days, clearance_date, pushes, datePc>>
    /\ UNCHANGED <<mobVars, grpVars, pipeVars>>

\* lines 65-66
StartCount ==
    /\ datePc = "skip"
    /\ Weekday(esd) < 5
    /\ working_days' = 0
    /\ dt' = esd
    /\ datePc' = "count"
    /\ UNCHANGED <<nowDay, nowMinute, esd, clearance_date, pushes>>
    /\ UNCHANGED <<mobVars, grpVars, pipeVars>>

CountDayAnyDay ==
    /\ datePc = "count"
    /\ working_days < 2
    /\ dt' = dt + 1
    /\ working_days' = working_days + 1
    /\ UNCHANGED <<nowDay, nowMinute, esd, clearance_date, pushes, datePc>>
    /\ UNCHANGED <<mobVars, grpVars, pipeVars>>

\* lines 67-70: one pass of the loop
CountDay ==
    /\ datePc = "count"
    /\ working_days < 2
    /\ dt' = dt + 1
    /\ working_days' = IF Weekday(dt + 1) < 5 THEN working_days + 1 ELSE working_days
    /\ UNCHANGED <<nowDay, nowMinute, esd, clearance_date, pushes, datePc>>
    /\ UNCHANGED <<mobVars, grpVars, pipeVars>>

\* lines 72-77
Clearance ==
    /\ datePc = "count"
    /\ working_days >= 2
    /\ clearance_date' = PushOffWeekend(dt, 0)[1]
    /\ pushes' = PushOffWeekend(dt, 0)[2]
    /\ datePc' = "done"
    /\ UNCHANGED <<nowDay, nowMinute, esd, dt, working_days>>
    /\ UNCHANGED <<mobVars, grpVars, pipeVars>>

NextDate == Submit \/ SkipWeekend \/ StartCount \/ CountDay \/ Clearance

(***************************************************************************)
(* fix_mobile and nationality_group applied to a cell.                     *)
(***************************************************************************)
MaxMobileLen == 10
MobileChars == {"0", "7", "."}

\* one more character of the cell's text
TypeMobile ==
    /\ mobPc = "typing"
    /\ mobIn # NaN
    /\ Len(mobIn) < MaxMobileLen
    /\ \E c \in MobileChars : mobIn' = Append(mobIn, c)
    /\ UNCHANGED <<mobOut, mobPc>>
    /\ UNCHANGED <<grpVars, dateVars, pipeVars>>

\* line 200, for one cell
FixMobile ==
    /\ mobPc = "typing"
    /\ mobOut' = fix_mobile(mobIn)
    /\ mobPc' = "fixed"
    /\ UNCHANGED mobIn
    /\ UNCHANGED <<grpVars, dateVars, pipeVars>>

NextMobile == TypeMobile \/ FixMobile

\* line 153, for one row
NationalityGroup ==
    /\ grpPc = "row"
    /\ grpOut' = nationality_group(grpNat, grpPr)
    /\ grpPc' = "grouped"
    /\ UNCHANGED <<grpNat, grpPr>>
    /\ UNCHANGED <<mobVars, dateVars, pipeVars>>

NextGroup == NationalityGroup

(***************************************************************************)
(* Initial states.                                                         *)
(***************************************************************************)
MobileIdle ==
    mobIn = <<>> /\ mobOut = <<>> /\ mobPc = "idle"

GroupIdle ==
    grpNat = <<>> /\ grpPr = <<>> /\ grpOut = 0 /\ grpPc = "idle"

DateIdle ==
    /\ nowDay = 0 /\ nowMinute = 0 /\ esd = 0 /\ dt = 0 /\ working_days = 0
    /\ clearance_date = 0 /\ pushes = 0 /\ datePc = "idle"

PipeIdle ==
    /\ raw = NoFrame /\ cleaned = NoFrame /\ recleaned = NoFrame
    /\ r = 0 /\ errors = 0 /\ seen = NoSeen /\ fills = {} /\ vehicles = <<>>
    /\ total = 0 /\ pc = "idle"

InitMobile ==
    /\ mobIn \in {<<>>, NaN} /\ mobOut = <<>> /\ mobPc = "typing"
    /\ GroupIdle /\ DateIdle /\ PipeIdle

\* cell texts of the nationality and PR columns
S_Yes_ == <<"Y", "e", "s", " ">>
S_Y    == <<"Y">>
S__pr_ == <<" ", "p", "r", " ">>
S__SINGAPORE == <<" ", "S", "I", "N", "G", "A", "P", "O", "R", "E">>
S_INDIA_ == <<"I", "N", "D", "I", "A", " ">>
S_French == <<"F", "r", "e", "n", "c", "h">>
GroupNats ==
    {S_Singapore, S_singapore, S__SINGAPORE, S_singaporean, S_Malaysia, S_malaysia,
     S_India, S_INDIA_, S_China, S_French, <<>>, NaN}
GroupPrs ==
    {S_yes, S_Yes_, S_y, S_Y, S_pr, S_PR, S__pr_, S_no, S_N, S_na, <<>>, NaN}

InitGroup ==
    /\ grpNat \in GroupNats /\ grpPr \in GroupPrs /\ grpOut = 0 /\ grpPc = "row"
    /\ MobileIdle /\ DateIdle /\ PipeIdle

InitDate ==
    /\ nowDay \in 0..6 /\ nowMinute \in 0..(24 * 60 - 1)
    /\ esd = 0 /\ dt = 0 /\ working_days = 0 /\ clearance_date = 0 /\ pushes = 0
    /\ datePc = "start"
    /\ MobileIdle /\ GroupIdle /\ PipeIdle

(***************************************************************************)
(* Uploaded sheets.                                                        *)
(***************************************************************************)
S_567A     == <<"5", "6", "7", "A">>
S_date     == <<"2", "0", "2", "5", "-", "0", "1", "-", "3", "1">>
S_tbc      == <<"t", "b", "c">>
S_mobile   == <<"9", "1", "2", "3", "4", "5", "6", "7">>
S_company  == <<"A", " ", "P", "T", "E", " ", " ", "L", "T", "D">>
S_plates   == <<"S", "B", "1", ",", " ", "S", "A", "2", " ", "/", "S", "B", "1">>
S_Zed      == <<"Z", "e", "d">>
S_zed      == <<"z", "e", "d">>
S_adam     == <<"a", "d", "a", "m">>
S_AlNg     == <<"A", "l", " ", "N", "g">>
S_alng     == <<"a", "l", " ", "n", "g">>
S_AlNg_    == <<"A", "l", " ", "N", "g", " ">>
S_BoLi     == <<"B", "o", " ", "L", "i">>
S_blank    == <<" ">>
S_Singaporean == <<"S", "i", "n", "g", "a", "p", "o", "r", "e", "a", "n">>

BaseRow ==
    [idx |-> 0, sn |-> 0, plate |-> NaN, company |-> S_company, fullName |-> S_AlNg,
     firstName |-> NaN, lastName |-> NaN, idType |-> S_NRIC, ic |-> S_567A,
     wp |-> NaN, nat |-> S_Singaporean, pr |-> NaN, gender |-> S_M,
     mobile |-> S_mobile]

\* a row of the sheet with nothing in columns 4 to 13
BlankRow ==
    [idx |-> 0, sn |-> 0, plate |-> NaN, company |-> NaN, fullName |-> NaN,
     firstName |-> NaN, lastName |-> NaN, idType |-> NaN, ic |-> NaN,
     wp |-> NaN, nat |-> NaN, pr |-> NaN, gender |-> NaN, mobile |-> NaN]

\* the sheets of at most n rows taken from rows
Sheets(rows, n) == UNION {[1..k -> rows] : k \in 0..n}

MaxSortRows == 2
SortRows ==
    {[BaseRow EXCEPT !.fullName = n, !.company = c, !.nat = t[1], !.pr = t[2]] :
        n \in {S_Zed, S_zed, S_adam}, c \in {S_company, NaN},
        t \in {<<S_singaporean, NaN>>, <<S_INDIA_, S_yes>>, <<S_INDIA_, NaN>>}}
    \cup {BlankRow, [BlankRow EXCEPT !.company = S_company]}

MaxRuleRows == 2
RuleRows ==
    {[BaseRow EXCEPT !.idType = t, !.nat = n, !.pr = p, !.ic = w[1], !.wp = w[2]] :
        t \in {S_NRIC, S_fin, S_WP}, n \in {S_Singaporean, S_India},
        p \in {S_PR, NaN},
        w \in {<<S_567A, S_date>>, <<S_567A, NaN>>, <<S_567A, S_tbc>>, <<S_date, S_567A>>}}

MaxNameRows == 3
NameRows ==
    {[BaseRow EXCEPT !.fullName = n, !.plate = S_plates] :
        n \in {S_AlNg, S_alng, S_AlNg_, S_blank}}
    \cup {[BaseRow EXCEPT !.fullName = n, !.company = NaN] : n \in {S_AlNg, S_BoLi}}

InitPipe(sheets) ==
    /\ raw \in sheets
    /\ cleaned = NoFrame /\ recleaned = NoFrame
    /\ r = 0 /\ errors = 0 /\ seen = NoSeen /\ fills = {} /\ vehicles = <<>>
    /\ total = 0 /\ pc = "uploaded"
    /\ MobileIdle /\ GroupIdle /\ DateIdle

InitSort  == InitPipe(Sheets(SortRows, MaxSortRows))
InitRules == InitPipe(Sheets(RuleRows, MaxRuleRows))
InitNames == InitPipe(Sheets(NameRows, MaxNameRows))

SpecSort  == InitSort /\ [][NextPipe]_vars
SpecRules == InitRules /\ [][NextPipe]_vars
SpecNames == InitNames /\ [][NextPipe]_vars

SpecMobile == InitMobile /\ [][NextMobile]_vars
SpecGroup  == InitGroup /\ [][NextGroup]_vars
SpecDate   == InitDate /\ [][NextDate]_vars /\ WF_vars(NextDate)

(***************************************************************************)
(* Properties of fix_mobile, nationality_group and the clearance date.     *)
(***************************************************************************)
\* C1: fix_mobile returns exactly 8 digits: of the digits of the input, the
\* first 8 when there are more than 8 and all the excess trailing ones are
\* zero, the last 8 when there are more than 8 otherwise, and all of them
\* behind a left padding of zeros when there are 8 or fewer.
MobileEightDigits ==
    mobPc = "fixed" =>
        LET d == DigitsOf(Str(mobIn))
            n == Len(d)
        IN  /\ Len(mobOut) = 8
            /\ \A i \in 1..8 : mobOut[i] \in {"0", "1", "2", "3", "4", "5", "6", "7", "8", "9"}
            /\ n > 8 =>
                 IF \A i \in 9..n : d[i] = "0"
                 THEN \A i \in 1..8 : mobOut[i] = d[i]
                 ELSE \A i \in 1..8 : mobOut[i] = d[n - 8 + i]
            /\ n <= 8 =>
                 \A i \in 1..8 : mobOut[i] = IF i <= 8 - n THEN "0" ELSE d[i - (8 - n)]

\* a cell read as the float 77777777.0 is cut back to its 8 digits
MobileTrailingZeroDropped ==
    /\ mobPc = "fixed"
    /\ mobIn = <<"7", "7", "7", "7", "7", "7", "7", "7", ".", "0">>
    /\ mobOut = <<"7", "7", "7", "7", "7", "7", "7", "7">>

\* the cells of GroupNats and GroupPrs by what they say
SaysSingapore(c) == c \in {S_Singapore, S_singapore, S__SINGAPORE}
SaysMalaysia(c)  == c \in {S_Malaysia, S_malaysia}
SaysIndia(c)     == c \in {S_India, S_INDIA_}
SaysResident(c)  == c \in {S_yes, S_Yes_, S_y, S_Y, S_pr, S_PR, S__pr_}

\* C8: nationality_group is 1 for a Singapore national whatever the residency,
\* else 2 for residency yes, y or pr in any case, else 3 for Malaysia, else 4
\* for India, else 5; it is always one of 1..5.
GroupPrecedence ==
    grpPc = "grouped" =>
        /\ grpOut \in 1..5
        /\ grpOut = 1 <=> SaysSingapore(grpNat)
        /\ grpOut = 2 <=> ~SaysSingapore(grpNat) /\ SaysResident(grpPr)
        /\ grpOut = 3 <=> SaysMalaysia(grpNat) /\ ~SaysResident(grpPr)
        /\ grpOut = 4 <=> SaysIndia(grpNat) /\ ~SaysResident(grpPr)

\* a Singapore national with residency PR is in class 1
SingaporePrGrouped ==
    grpPc = "grouped" /\ grpNat = S_Singapore /\ grpPr = S_PR /\ grpOut = 1

\* the day the submission counts from: today, or tomorrow from 15:00 on
SubmissionStart == IF nowMinute >= 15 * 60 THEN nowDay + 1 ELSE nowDay

IsWorkingDay(d) == d % 7 \in 0..4

ClearanceIsSecondWorkingDay ==
    datePc = "done" =>
        /\ IsWorkingDay(esd)
        /\ esd >= SubmissionStart
        /\ \A d \in SubmissionStart..(esd - 1) : ~IsWorkingDay(d)
        /\ IsWorkingDay(clearance_date)
        /\ clearance_date > esd
        /\ Cardinality({d \in (esd + 1)..clearance_date : IsWorkingDay(d)}) = 2
        /\ pushes = 0

\* C10: for every weekday and time of day the clearance-date calculation
\* terminates, and its result is a Monday-to-Friday day, the second working
\* day strictly after the effective submission date (the first working day on
\* or after today, or after tomorrow from 15:00 on); the final loop that pushes
\* the date off a weekend never runs its body.
ClearanceDateCorrect ==
    [](ClearanceIsSecondWorkingDay) /\ <>(datePc = "done")

\* a Friday 15:00 submission counts from Monday and clears on Wednesday
FridayAfternoonClearsWednesday ==
    /\ datePc = "done"
    /\ nowDay = 4 /\ nowMinute = 15 * 60
    /\ esd = 7 /\ clearance_date = 9

(***************************************************************************)
(* Properties of clean_data and generate_visitor_only.                     *)
(***************************************************************************)
Cleaned == pc # "uploaded"

\* the columns of a row, without the history field
Columns(row) == [row EXCEPT !.idx = 0]

\* C2: the rows clean_data returns are in ascending order of the key
\* (companyName, sortClass, nationality, fullName) of their normalized values,
\* and rows with the same key keep the order they had in the input.
SortedByNormalizedKey ==
    Cleaned =>
        \A i, j \in 1..Len(cleaned) :
            i < j =>
                /\ ~KeyLess(cleaned[j], cleaned[i])
                /\ ~KeyLess(cleaned[i], cleaned[j]) => cleaned[i].idx < cleaned[j].idx

\* C3: clean_data run on its own result returns that result: the same
\* columns of the same rows in the same order.
CleanIsIdempotent ==
    pc = "recleaned" =>
        /\ Len(recleaned) = Len(cleaned)
        /\ \A i \in 1..Len(cleaned) : Columns(recleaned[i]) = Columns(cleaned[i])

\* a row of the sheet with something in one of the columns 4 to 13
HasVisitorData(row) ==
    \/ row.fullName # NaN \/ row.firstName # NaN \/ row.lastName # NaN
    \/ row.idType # NaN \/ row.ic # NaN \/ row.wp # NaN \/ row.nat # NaN
    \/ row.pr # NaN \/ row.gender # NaN \/ row.mobile # NaN

\* C9: clean_data returns one record for each input row that has a value in
\* one of the columns 4 to 13 and none for any other row, and the serial
\* numbers of the records are 1..N by position.
OneRecordPerVisitorRow ==
    Cleaned =>
        /\ \A j \in 1..Len(raw) :
               Cardinality({i \in 1..Len(cleaned) : cleaned[i].idx = j})
                   = IF HasVisitorData(raw[j]) THEN 1 ELSE 0
        /\ \A i \in 1..Len(cleaned) : cleaned[i].idx \in 1..Len(raw) /\ cleaned[i].sn = i

\* a blank row between two visitors is dropped and the two are numbered 1, 2
\* although the second one's work permit, names and plate cells are empty
BlankRowDropped ==
    /\ pc = "cleaned"
    /\ Len(raw) = 2 /\ raw[1] = BlankRow /\ raw[2] # BlankRow /\ HasVisitorData(raw[2])
    /\ Len(cleaned) = 1 /\ cleaned[1].sn = 1 /\ cleaned[1].idx = 2

Scanned == pc = "done"

FlaggedRule(i) == {<<"G", i + 1>>, <<"J", i + 1>>, <<"K", i + 1>>} \subseteq fills

R1(row) == row.nat = S_Singapore /\ row.pr = S_PR
R2(row) == row.idType # S_NRIC /\ row.pr = S_PR
R3(row) == row.idType = S_FIN /\ (row.nat = S_Singapore \/ row.pr = S_PR)
R4(row) == row.idType = S_NRIC /\ ~(row.nat = S_Singapore \/ row.pr = S_PR)
R5(row) == row.idType \in {S_FIN, S_WP} /\ row.wp = NaN

\* C4: a row's identification-type, nationality and residency cells are
\* flagged exactly when the row satisfies one of R1, R2, R3, R4.
RulesFlagged ==
    Scanned =>
        \A i \in 1..Len(cleaned) :
            FlaggedRule(i) <=>
                R1(cleaned[i]) \/ R2(cleaned[i]) \/ R3(cleaned[i]) \/ R4(cleaned[i])

\* C5: a row whose idType is FIN or WP and whose work permit expiry is absent
\* has its expiry cell flagged and is counted as one validation error (R5).
MissingExpiryFlagged ==
    Scanned =>
        /\ \A i \in 1..Len(cleaned) : R5(cleaned[i]) => <<"I", i + 1>> \in fills
        /\ errors = Cardinality({i \in 1..Len(cleaned) : FlaggedRule(i)})
                    + Cardinality({i \in 1..Len(cleaned) : R5(cleaned[i])})

\* C6 as stated: a row's fullName cell is flagged exactly when another row
\* has the identical normalized fullName.
DuplicateIffIdenticalName ==
    Scanned =>
        \A i \in 1..Len(cleaned) :
            <<"D", i + 1>> \in fills <=>
                \E j \in 1..Len(cleaned) :
                    j # i /\ cleaned[j].fullName = cleaned[i].fullName

\* the name without the spaces around it
Trimmed(name) ==
    IF \A k \in 1..Len(name) : name[k] = " " THEN <<>>
    ELSE LET first == CHOOSE a \in 1..Len(name) :
                          name[a] # " " /\ \A k \in 1..a-1 : name[k] = " "
             last  == CHOOSE b \in 1..Len(name) :
                          name[b] # " " /\ \A k \in b+1..Len(name) : name[k] = " "
         IN  [k \in 1..(last - first + 1) |-> name[first + k - 1]]

\* C6, amended: a row's fullName cell is flagged exactly when its normalized
\* fullName, with the spaces around it removed, is not empty and is that of
\* another row too; the first occurrence is flagged like every later one.
DuplicateIffSameTrimmedName ==
    Scanned =>
        \A i \in 1..Len(cleaned) :
            <<"D", i + 1>> \in fills <=>
                /\ Trimmed(cleaned[i].fullName) # <<>>
                /\ \E j \in 1..Len(cleaned) :
                       j # i /\ Trimmed(cleaned[j].fullName) = Trimmed(cleaned[i].fullName)

\* three rows of one name, all three flagged
ThreeOfOneNameFlagged ==
    /\ Scanned
    /\ Len(cleaned) = 3
    /\ \A i \in 1..3 : cleaned[i].fullName = S_AlNg /\ <<"D", i + 1>> \in fills

\* C7: Total Visitors is the number of records whose companyName is not empty
\* after normalization; a record whose company cell was empty in the input is
\* not counted.
TotalCountsCompanies ==
    Scanned =>
        total = Cardinality({i \in 1..Len(cleaned) :
                    cleaned[i].company # <<>> /\ raw[cleaned[i].idx].company # NaN})

====
